---- MODULE Spec2Model ----
(***************************************************************************)
(* apply_rules (src/src/apply_rules.rs): reading complementary code rule   *)
(* files into an ordered, duplicate-free set of ComplementaryCode, applying *)
(* each of them to the collection its object_type selects, and writing the  *)
(* report.                                                                  *)
(*                                                                          *)
(* Strings that the code orders (object_id, object_system, object_code) are *)
(* sequences of character codes, ordered as Rust orders String.  A rule     *)
(* file is a path of the list: it is missing (csv::Reader::from_path        *)
(* fails), a stream whose rows the environment decides as they are read, or *)
(* a file of fixed content (used where the same files are read twice).      *)
(* Every path has a final component (file_name() is Some) and the csv       *)
(* iterator of an opened file ends after finitely many items.               *)
(***************************************************************************)
EXTENDS Naturals, Sequences, FiniteSets

\* ------------------------------------------------------------------ bounds
MaxFiles == 2
MaxRows == 3
TwiceMaxFiles == 2
TwiceMaxRows == 2
MaxRuns == 2

\* ----------------------------------------------------------------- strings
A == <<1>>
AB == <<1, 2>>
B == <<2>>
NAV == <<7>>
C42 == <<4, 2>>
C43 == <<4, 3>>

Min(a, b) == IF a < b THEN a ELSE b

\* Ord of String: lexicographic over the bytes, a proper prefix first.
StrLess(s, t) ==
    \/ \E i \in 1..Min(Len(s), Len(t)) :
          /\ s[i] < t[i]
          /\ \A j \in 1..(i - 1) : s[j] = t[j]
    \/ /\ Len(s) < Len(t)
       /\ \A j \in 1..Len(s) : s[j] = t[j]

\* -------------------------------------------------------------- ObjectType
ObjectType == {"Line", "Route", "StopPoint", "StopArea"}

\* derive(Ord) on the enum: the order of declaration.
\* Variant of Discriminant: the order of the tags as strings.
DiscriminantByTag(t) ==
    CASE t = "Line" -> 0
      [] t = "Route" -> 1
      [] t = "StopArea" -> 2
      [] t = "StopPoint" -> 3

Discriminant(t) ==
    CASE t = "Line" -> 0
      [] t = "Route" -> 1
      [] t = "StopPoint" -> 2
      [] t = "StopArea" -> 3

as_str(t) ==
    CASE t = "Line" -> "line"
      [] t = "Route" -> "route"
      [] t = "StopPoint" -> "stop_point"
      [] t = "StopArea" -> "stop_area"

\* serde(rename_all = "snake_case"): the tags Deserialize accepts.
KnownTags == {"line", "route", "stop_point", "stop_area"}

FromTag(tag) ==
    CASE tag = "line" -> "Line"
      [] tag = "route" -> "Route"
      [] tag = "stop_point" -> "StopPoint"
      [] tag = "stop_area" -> "StopArea"

\* ------------------------------------------------------- ComplementaryCode
ComplementaryCode(t, id, sys, code) ==
    [object_type |-> t, object_id |-> id, object_system |-> sys, object_code |-> code]

NoCode == ComplementaryCode("Line", <<>>, <<>>, <<>>)

\* derive(Ord) on the struct: lexicographic over the fields as declared.
CodeLess(a, b) ==
    \/ Discriminant(a.object_type) < Discriminant(b.object_type)
    \/ /\ a.object_type = b.object_type
       /\ \/ StrLess(a.object_id, b.object_id)
          \/ /\ a.object_id = b.object_id
             /\ \/ StrLess(a.object_system, b.object_system)
                \/ /\ a.object_system = b.object_system
                   /\ StrLess(a.object_code, b.object_code)

\* A row of the csv file under the header object_type, object_id,
\* object_system, object_code: the record has all four fields and a known tag.
Deserialize(fields) ==
    IF Len(fields) # 4
    THEN [ok |-> FALSE, val |-> NoCode, err |-> "unequal lengths"]
    ELSE IF fields[1] \notin KnownTags
         THEN [ok |-> FALSE, val |-> NoCode, err |-> "unknown variant"]
         ELSE [ok |-> TRUE,
               val |-> ComplementaryCode(FromTag(fields[1]), fields[2], fields[3], fields[4]),
               err |-> "none"]

\* BTreeSet::insert, the set kept as its ascending sequence.
\* Variant of BTreeInsert: ordered insertion that keeps an equal element.
BTreePush(s, c) ==
    LET lower == {i \in 1..Len(s) : ~CodeLess(c, s[i])}
        k == Cardinality(lower)
    IN SubSeq(s, 1, k) \o <<c>> \o SubSeq(s, k + 1, Len(s))

BTreeInsert(s, c) ==
    IF \E i \in 1..Len(s) : s[i] = c
    THEN s
    ELSE LET lower == {i \in 1..Len(s) : CodeLess(s[i], c)}
             k == Cardinality(lower)
         IN SubSeq(s, 1, k) \o <<c>> \o SubSeq(s, k + 1, Len(s))

\* ------------------------------------------------------------------ inputs
Row(fields) == [kind |-> "row", fields |-> fields]
IoError == [kind |-> "io", fields |-> <<>>]
Eof == [kind |-> "eof", fields |-> <<>>]

RowP1 == Row(<<"stop_point", A, NAV, C42>>)
RowP2 == Row(<<"stop_point", AB, NAV, C43>>)
RowA1 == Row(<<"stop_area", A, NAV, C43>>)
RowL1 == Row(<<"line", A, NAV, C42>>)
RowR1 == Row(<<"route", B, NAV, C42>>)
RowP3 == Row(<<"stop_point", AB, NAV, C42>>)
RowBogus == Row(<<"bogus", A, NAV, C42>>)
RowShort == Row(<<"stop_point", A, NAV>>)

\* What the iterator of rdr.deserialize() can yield before it ends.
Items == {RowP1, RowP2, RowP3, RowA1, RowL1, RowR1, RowBogus, RowShort, IoError}
TwiceItems == {RowP1, RowP2, RowA1, RowBogus}

Missing == [kind |-> "missing", rows |-> <<>>]
Stream == [kind |-> "stream", rows |-> <<>>]
Fixed(rows) == [kind |-> "fixed", rows |-> rows]

SeqsUpTo(S, n) == UNION {[1..k -> S] : k \in 0..n}

RECURSIVE TotalRows(_)
TotalRows(fs) ==
    IF fs = <<>> THEN 0 ELSE Len(Head(fs).rows) + TotalRows(Tail(fs))

Entity(id, codes) == [id |-> id, codes |-> codes]

\* The collections of the model the rules are applied to.
InitialCollections ==
    [lines |-> <<Entity(B, {})>>,
     routes |-> <<Entity(B, {})>>,
     stop_points |-> <<Entity(B, {<<NAV, C43>>}), Entity(A, {})>>,
     stop_areas |-> <<Entity(A, {<<NAV, C42>>})>>]

VARIABLES
    rule_files,     \* complementary_code_rules_files
    collections,    \* the four collections with their entities' codes
    collections0,   \* collections when the current call began
    pc,             \* where apply_rules is
    run,            \* number of the call
    fi,             \* paths of rule_files taken so far
    ri,             \* items the current file's iterator has yielded
    nrows,          \* items yielded in this call, over all files
    codes,          \* the BTreeSet, then the Vec collected from it
    ai,             \* records of codes applied so far
    report,         \* Report: the warnings in the order they were added
    parsed,         \* records the rows of this call deserialized to
    rejected,       \* items of this call that were Err
    io_errors,      \* items of this call that were I/O errors
    ser,            \* outcome of serde_json::to_string_pretty
    wr,             \* outcome of fs::write
    written,        \* what fs::write wrote in this call
    result          \* what apply_rules returned

vars == <<rule_files, collections, collections0, pc, run, fi, ri, nrows, codes, ai,
          report, parsed, rejected, io_errors, ser, wr, written, result>>


\* ------------------------------------------------------------------ Report
\* Report::add_warning: the warning goes to the end of the report.
add_warning(rep, message, category) ==
    Append(rep, [message |-> message, category |-> category])

\* format!("Error reading {:?}: {}", path.file_name().unwrap(), e): the file
\* is the path's place in the list, the error its kind and the item's number.
ReadMessage(file, kind, item) ==
    [file |-> file, error |-> kind, record |-> item]

\* format!("Error inserting code: object_codes.txt: object={},  object_id={} not found", ..)
NotFoundMessage(code) ==
    [object |-> as_str(code.object_type), object_id |-> code.object_id]

\* ------------------------------------------------------------- collections
\* CollectionWithId::get_idx: the index of the entity with that id, 0 for None.
get_idx(collection, id) ==
    IF \E i \in 1..Len(collection) : collection[i].id = id
    THEN CHOOSE i \in 1..Len(collection) : collection[i].id = id
    ELSE 0

\* Variant of insert_code: an unknown id adds no warning.
InsertCodeSilent(collection, code, rep) ==
    LET idx == get_idx(collection, code.object_id)
    IN IF idx = 0
       THEN [collection |-> collection, report |-> rep]
       ELSE [collection |->
                [collection EXCEPT ![idx].codes = @ \cup {<<code.object_system, code.object_code>>}],
             report |-> rep]

\* Variant of insert_code: a pair already present is removed.
InsertCodeToggle(collection, code, rep) ==
    LET idx == get_idx(collection, code.object_id)
        pair == <<code.object_system, code.object_code>>
    IN IF idx = 0
       THEN [collection |-> collection,
             report |-> add_warning(rep, NotFoundMessage(code), "ComplementaryObjectNotFound")]
       ELSE [collection |->
                [collection EXCEPT ![idx].codes = IF pair \in @ THEN @ \ {pair} ELSE @ \cup {pair}],
             report |-> rep]

\* Variant of insert_code: the pair replaces the code set.
InsertCodeOverride(collection, code, rep) ==
    LET idx == get_idx(collection, code.object_id)
    IN IF idx = 0
       THEN [collection |-> collection,
             report |-> add_warning(rep, NotFoundMessage(code), "ComplementaryObjectNotFound")]
       ELSE [collection |->
                [collection EXCEPT ![idx].codes = {<<code.object_system, code.object_code>>}],
             report |-> rep]

insert_code(collection, code, rep) ==
    LET idx == get_idx(collection, code.object_id)
    IN IF idx = 0
       THEN [collection |-> collection,
             report |-> add_warning(rep, NotFoundMessage(code), "ComplementaryObjectNotFound")]
       ELSE [collection |->
                [collection EXCEPT ![idx].codes = @ \cup {<<code.object_system, code.object_code>>}],
             report |-> rep]

\* The match on code.object_type in apply_rules.
Dispatch(cols, code, rep) ==
    CASE code.object_type = "Line" ->
           LET r == insert_code(cols.lines, code, rep)
           IN [collections |-> [cols EXCEPT !.lines = r.collection], report |-> r.report]
      [] code.object_type = "Route" ->
           LET r == insert_code(cols.routes, code, rep)
           IN [collections |-> [cols EXCEPT !.routes = r.collection], report |-> r.report]
      [] code.object_type = "StopPoint" ->
           LET r == insert_code(cols.stop_points, code, rep)
           IN [collections |-> [cols EXCEPT !.stop_points = r.collection], report |-> r.report]
      [] code.object_type = "StopArea" ->
           LET r == insert_code(cols.stop_areas, code, rep)
           IN [collections |-> [cols EXCEPT !.stop_areas = r.collection], report |-> r.report]

\* -------------------------------------------------------------------- Init
Fresh ==
    /\ pc = "open"
    /\ fi = 0
    /\ ri = 0
    /\ nrows = 0
    /\ codes = <<>>
    /\ ai = 0
    /\ report = <<>>
    /\ parsed = {}
    /\ rejected = 0
    /\ io_errors = 0
    /\ ser = "none"
    /\ wr = "none"
    /\ written = <<>>
    /\ result = "none"

\* apply_rules is entered with a list of paths, each missing or readable.
Init ==
    /\ rule_files \in SeqsUpTo({Missing, Stream}, MaxFiles)
    /\ collections = InitialCollections
    /\ collections0 = collections
    /\ run = 1
    /\ Fresh

\* The same, the files being of fixed content.
InitTwice ==
    /\ rule_files \in {fs \in SeqsUpTo({Missing} \cup {Fixed(rs) : rs \in SeqsUpTo(TwiceItems, TwiceMaxRows)},
                                        TwiceMaxFiles) : TotalRows(fs) <= TwiceMaxRows}
    /\ collections = InitialCollections
    /\ collections0 = collections
    /\ run = 1
    /\ Fresh

\* ----------------------------------------------------------------- actions
\* What the iterator of the file being read yields next.
NextItems ==
    LET f == rule_files[fi]
    IN IF f.kind = "stream"
       THEN (IF nrows < MaxRows THEN Items ELSE {}) \cup {Eof}
       ELSE IF ri < Len(f.rows) THEN {f.rows[ri + 1]} ELSE {Eof}

\* csv::Reader::from_path(&path) succeeds.
OpenOk ==
    /\ pc = "open"
    /\ fi < Len(rule_files)
    /\ rule_files[fi + 1].kind # "missing"
    /\ fi' = fi + 1
    /\ ri' = 0
    /\ pc' = "rows"
    /\ UNCHANGED <<rule_files, collections, collections0, run, nrows, codes, ai, report,
                   parsed, rejected, io_errors, ser, wr, written, result>>

\* Variant of OpenFail: a warning, then the next path.
OpenFailSoft ==
    /\ pc = "open"
    /\ fi < Len(rule_files)
    /\ rule_files[fi + 1].kind = "missing"
    /\ fi' = fi + 1
    /\ report' = add_warning(report, ReadMessage(fi + 1, "open", 0), "ComplementaryCodeRulesRead")
    /\ UNCHANGED <<rule_files, collections, collections0, pc, run, ri, nrows, codes, ai,
                   parsed, rejected, io_errors, ser, wr, written, result>>

\* csv::Reader::from_path(&path) fails: the ? returns the error.
OpenFail ==
    /\ pc = "open"
    /\ fi < Len(rule_files)
    /\ rule_files[fi + 1].kind = "missing"
    /\ pc' = "done"
    /\ result' = "err"
    /\ UNCHANGED <<rule_files, collections, collections0, run, fi, ri, nrows, codes, ai,
                   report, parsed, rejected, io_errors, ser, wr, written>>

\* The iterator yields Ok(val): codes.insert(c).
RowOk ==
    /\ pc = "rows"
    /\ \E it \in NextItems :
          /\ it.kind = "row"
          /\ Deserialize(it.fields).ok
          /\ codes' = BTreeInsert(codes, Deserialize(it.fields).val)
          /\ parsed' = parsed \cup {Deserialize(it.fields).val}
    /\ ri' = ri + 1
    /\ nrows' = nrows + 1
    /\ UNCHANGED <<rule_files, collections, collections0, pc, run, fi, ai, report,
                   rejected, io_errors, ser, wr, written, result>>

ErrKind(it) == IF it.kind = "io" THEN "io" ELSE Deserialize(it.fields).err

IsErr(it) == it.kind = "io" \/ (it.kind = "row" /\ ~Deserialize(it.fields).ok)

\* Variant of RowErr: an I/O error returns the error.
RowErrFatalIo ==
    /\ pc = "rows"
    /\ \E it \in NextItems :
          /\ IsErr(it)
          /\ IF it.kind = "io"
             THEN /\ pc' = "done"
                  /\ result' = "err"
                  /\ report' = report
             ELSE /\ report' = add_warning(report, ReadMessage(fi, ErrKind(it), ri + 1),
                                           "ComplementaryCodeRulesRead")
                  /\ UNCHANGED <<pc, result>>
          /\ io_errors' = IF it.kind = "io" THEN io_errors + 1 ELSE io_errors
    /\ rejected' = rejected + 1
    /\ ri' = ri + 1
    /\ nrows' = nrows + 1
    /\ UNCHANGED <<rule_files, collections, collections0, run, fi, codes, ai,
                   parsed, ser, wr, written>>

\* Variant of RowErr: the warning, then the loop over the file ends.
RowErrBreak ==
    /\ pc = "rows"
    /\ \E it \in NextItems :
          /\ IsErr(it)
          /\ report' = add_warning(report, ReadMessage(fi, ErrKind(it), ri + 1),
                                   "ComplementaryCodeRulesRead")
          /\ io_errors' = IF it.kind = "io" THEN io_errors + 1 ELSE io_errors
    /\ rejected' = rejected + 1
    /\ ri' = ri + 1
    /\ nrows' = nrows + 1
    /\ pc' = "open"
    /\ UNCHANGED <<rule_files, collections, collections0, run, fi, codes, ai,
                   parsed, ser, wr, written, result>>

\* The iterator yields Err(e): the warning, then continue.
RowErr ==
    /\ pc = "rows"
    /\ \E it \in NextItems :
          /\ IsErr(it)
          /\ report' = add_warning(report, ReadMessage(fi, ErrKind(it), ri + 1),
                                   "ComplementaryCodeRulesRead")
          /\ io_errors' = IF it.kind = "io" THEN io_errors + 1 ELSE io_errors
    /\ rejected' = rejected + 1
    /\ ri' = ri + 1
    /\ nrows' = nrows + 1
    /\ UNCHANGED <<rule_files, collections, collections0, pc, run, fi, codes, ai,
                   parsed, ser, wr, written, result>>

\* The iterator ends: the next path of the list.
EndOfFile ==
    /\ pc = "rows"
    /\ Eof \in NextItems
    /\ pc' = "open"
    /\ UNCHANGED <<rule_files, collections, collections0, run, fi, ri, nrows, codes, ai,
                   report, parsed, rejected, io_errors, ser, wr, written, result>>

\* No path is left: Ok(codes.into_iter().collect()), the set in ascending order.
Collect ==
    /\ pc = "open"
    /\ fi = Len(rule_files)
    /\ pc' = "apply"
    /\ ai' = 0
    /\ UNCHANGED <<rule_files, collections, collections0, run, fi, ri, nrows, codes,
                   report, parsed, rejected, io_errors, ser, wr, written, result>>

\* One turn of "for code in codes".
ApplyCode ==
    /\ pc = "apply"
    /\ ai < Len(codes)
    /\ LET r == Dispatch(collections, codes[ai + 1], report)
       IN /\ collections' = r.collections
          /\ report' = r.report
    /\ ai' = ai + 1
    /\ UNCHANGED <<rule_files, collections0, pc, run, fi, ri, nrows, codes,
                   parsed, rejected, io_errors, ser, wr, written, result>>

\* serde_json::to_string_pretty(&report)?
Serialize ==
    /\ pc = "apply"
    /\ ai = Len(codes)
    /\ \E ok \in BOOLEAN :
          IF ok
          THEN /\ ser' = "ok"
               /\ pc' = "write"
               /\ result' = result
          ELSE /\ ser' = "err"
               /\ pc' = "done"
               /\ result' = "err"
    /\ UNCHANGED <<rule_files, collections, collections0, run, fi, ri, nrows, codes, ai,
                   report, parsed, rejected, io_errors, wr, written>>

\* Variant of WriteReport: an empty report is not written.
WriteReportIfAny ==
    /\ pc = "write"
    /\ \E ok \in BOOLEAN :
          IF ok
          THEN /\ wr' = "ok"
               /\ written' = IF report = <<>> THEN written ELSE Append(written, report)
               /\ result' = "ok"
          ELSE /\ wr' = "err"
               /\ written' = written
               /\ result' = "err"
    /\ pc' = "done"
    /\ UNCHANGED <<rule_files, collections, collections0, run, fi, ri, nrows, codes, ai,
                   report, parsed, rejected, io_errors, ser>>

\* fs::write(report_path, serialized_report)?; Ok(())
WriteReport ==
    /\ pc = "write"
    /\ \E ok \in BOOLEAN :
          IF ok
          THEN /\ wr' = "ok"
               /\ written' = Append(written, report)
               /\ result' = "ok"
          ELSE /\ wr' = "err"
               /\ written' = written
               /\ result' = "err"
    /\ pc' = "done"
    /\ UNCHANGED <<rule_files, collections, collections0, run, fi, ri, nrows, codes, ai,
                   report, parsed, rejected, io_errors, ser>>

\* apply_rules is called again with the same paths on the collections it left.
Rerun ==
    /\ pc = "done"
    /\ run < MaxRuns
    /\ run' = run + 1
    /\ collections0' = collections
    /\ pc' = "open"
    /\ fi' = 0
    /\ ri' = 0
    /\ nrows' = 0
    /\ codes' = <<>>
    /\ ai' = 0
    /\ report' = <<>>
    /\ parsed' = {}
    /\ rejected' = 0
    /\ io_errors' = 0
    /\ ser' = "none"
    /\ wr' = "none"
    /\ written' = <<>>
    /\ result' = "none"
    /\ UNCHANGED <<rule_files, collections>>

Next ==
    \/ OpenOk
    \/ OpenFail
    \/ RowOk
    \/ RowErr
    \/ EndOfFile
    \/ Collect
    \/ ApplyCode
    \/ Serialize
    \/ WriteReport

NextTwice == Next \/ Rerun

Spec == Init /\ [][Next]_vars

\* The run is one sequential call: it goes on while a step is left.
FairSpec == Init /\ [][Next]_vars /\ WF_vars(Next)

SpecTwice == InitTwice /\ [][NextTwice]_vars


\* ------------------------------------------------------ properties: helpers
Range(s) == {s[i] : i \in 1..Len(s)}

\* The order of object_type that the rule reader is to follow.
TypeOrder == <<"Line", "Route", "StopPoint", "StopArea">>

TypePlace(t) == CHOOSE i \in 1..Len(TypeOrder) : TypeOrder[i] = t

Key(c) == <<c.object_id, c.object_system, c.object_code>>

\* Strictly before, in the order over (object_type, object_id, object_system, object_code).
Before(a, b) ==
    \/ TypePlace(a.object_type) < TypePlace(b.object_type)
    \/ /\ TypePlace(a.object_type) = TypePlace(b.object_type)
       /\ \E k \in 1..3 :
             /\ StrLess(Key(a)[k], Key(b)[k])
             /\ \A j \in 1..(k - 1) : Key(a)[j] = Key(b)[j]

\* The collection a record's object_type selects.
Selected(cols, t) ==
    CASE t = "Line" -> cols.lines
      [] t = "Route" -> cols.routes
      [] t = "StopPoint" -> cols.stop_points
      [] t = "StopArea" -> cols.stop_areas

TagOf(t) ==
    CASE t = "Line" -> "line"
      [] t = "Route" -> "route"
      [] t = "StopPoint" -> "stop_point"
      [] t = "StopArea" -> "stop_area"

Resolves(cols, c) == \E i \in 1..Len(Selected(cols, c.object_type)) :
                        Selected(cols, c.object_type)[i].id = c.object_id

HasMissing == \E i \in 1..Len(rule_files) : rule_files[i].kind = "missing"

\* read_complementary_code_rules_files has returned Ok.
ReadReturned == pc \in {"apply", "write"} \/ (pc = "done" /\ ser # "none")

ReadWarnings == {i \in 1..Len(report) : report[i].category = "ComplementaryCodeRulesRead"}

NotFoundWarnings == {i \in 1..Len(report) : report[i].category = "ComplementaryObjectNotFound"}

Fields == {"lines", "routes", "stop_points", "stop_areas"}

\* ---------------------------------------------------------------------- C1
\* C1: the sequence read_complementary_code_rules_files returns holds exactly
\* the records of the rows that parsed, none of them twice, strictly ascending
\* over (object_type, object_id, object_system, object_code) with
\* Line < Route < StopPoint < StopArea.
C1_ReadResult ==
    ReadReturned =>
        /\ Range(codes) = parsed
        /\ \A i, j \in 1..Len(codes) : i # j => codes[i] # codes[j]
        /\ \A i, j \in 1..Len(codes) : i < j => Before(codes[i], codes[j])

\* Two files were read, a record occurred twice, and records of the types
\* StopPoint and StopArea are in the result.
C1_Witness ==
    /\ ReadReturned
    /\ fi = 2
    /\ nrows > Len(codes) + rejected
    /\ \E i, j \in 1..Len(codes) :
          codes[i].object_type = "StopPoint" /\ codes[j].object_type = "StopArea"

\* ---------------------------------------------------------------------- C2
\* C2: when a path of the list cannot be opened, wherever it is in the list,
\* apply_rules returns an error, every code set is as it was before the call
\* and no report write was attempted.
C2_OpenFailureIsFatal ==
    HasMissing =>
        /\ collections = collections0
        /\ wr = "none"
        /\ written = <<>>
        /\ pc = "done" => result = "err"

\* The second path is missing, the first was read and gave a record whose
\* target exists.
C2_Witness ==
    /\ pc = "done"
    /\ Len(rule_files) = 2
    /\ rule_files[1].kind = "stream"
    /\ rule_files[2].kind = "missing"
    /\ \E c \in parsed : Resolves(collections, c)

C4_Original ==
    (pc = "done" /\ io_errors > 0) => result = "err"

\* C4: an I/O error on reading a row of an opened file is handled as a
\* malformed row is: one ComplementaryCodeRulesRead warning is added and the
\* loop over the rows of that file goes on; the run is not aborted.
C4_IoErrorIsWarning ==
    [][io_errors' > io_errors =>
          /\ pc' = "rows"
          /\ fi' = fi
          /\ result' = "none"
          /\ Len(report') = Len(report) + 1
          /\ SubSeq(report', 1, Len(report)) = report
          /\ report'[Len(report')].category = "ComplementaryCodeRulesRead"
          /\ report'[Len(report')].message.error = "io"]_vars

\* A run with an I/O error on a row that returned success.
C4_Witness ==
    /\ pc = "done"
    /\ io_errors > 0
    /\ result = "ok"

\* ---------------------------------------------------------------------- C5
\* C5: applying a record whose object_id is not in the collection its
\* object_type selects adds exactly one ComplementaryObjectNotFound warning
\* with the type's tag and the id, changes no code set, and the loop over the
\* records goes on.
C5_NotFound ==
    [][(pc = "apply" /\ ai' = ai + 1 /\ ~Resolves(collections, codes[ai + 1])) =>
          /\ report' = Append(report,
                 [message |-> [object |-> TagOf(codes[ai + 1].object_type),
                               object_id |-> codes[ai + 1].object_id],
                  category |-> "ComplementaryObjectNotFound"])
          /\ collections' = collections
          /\ pc' = "apply"
          /\ result' = "none"]_vars

\* A successful run whose report has a not-found warning for a line whose id
\* exists among the stop points only.
C5_Witness ==
    /\ pc = "done"
    /\ result = "ok"
    /\ \E i \in NotFoundWarnings :
          report[i].message.object = "line" /\ report[i].message.object_id = A

\* ---------------------------------------------------------------------- C6
\* C6: every item of an opened file that fails to parse adds exactly one
\* ComplementaryCodeRulesRead warning and no record, and the loop goes on with
\* the same file; the read warnings are as many as the rejected items, and
\* after a successful run every parsed record whose target exists is applied.
C6_FailSoftRows ==
    /\ [](/\ Cardinality(ReadWarnings) = rejected
          /\ Cardinality(parsed) + rejected <= nrows
          /\ (pc = "done" /\ result = "ok") =>
                \A c \in parsed :
                   \A i \in 1..Len(Selected(collections, c.object_type)) :
                      Selected(collections, c.object_type)[i].id = c.object_id =>
                         <<c.object_system, c.object_code>>
                            \in Selected(collections, c.object_type)[i].codes)
    /\ [][rejected' > rejected =>
             /\ rejected' = rejected + 1
             /\ Len(report') = Len(report) + 1
             /\ SubSeq(report', 1, Len(report)) = report
             /\ report'[Len(report')].category = "ComplementaryCodeRulesRead"
             /\ codes' = codes
             /\ parsed' = parsed
             /\ pc' = "rows"
             /\ fi' = fi]_vars

\* A successful run over two files: the second item of the first file was
\* rejected and the items before and after it gave two records, both applied.
C6_Witness ==
    /\ pc = "done"
    /\ result = "ok"
    /\ fi = 2
    /\ nrows = 3
    /\ rejected = 1
    /\ Cardinality(parsed) = 2
    /\ report[1].category = "ComplementaryCodeRulesRead"
    /\ report[1].message.file = 1
    /\ report[1].message.record = 2
    /\ \A c \in parsed : Resolves(collections, c)

\* ---------------------------------------------------------------------- C7
\* C7: the report is written at most once, after the last record was applied;
\* when every file opened and the serialization and the write succeeded,
\* apply_rules returns success and what was written is the whole report, also
\* when it is empty.
C7_ReportWritten ==
    /\ Len(written) <= 1
    /\ wr # "none" => (pc = "done" /\ ai = Len(codes) /\ ~HasMissing /\ ser = "ok")
    /\ (pc = "done" /\ ~HasMissing /\ ser = "ok" /\ wr = "ok") =>
          /\ result = "ok"
          /\ written = <<report>>
          /\ Cardinality(ReadWarnings) = rejected
          /\ Cardinality(NotFoundWarnings)
                = Cardinality({c \in parsed : ~Resolves(collections, c)})

\* A successful run that applied records and wrote an empty report.
C7_Witness ==
    /\ pc = "done"
    /\ result = "ok"
    /\ codes # <<>>
    /\ report = <<>>
    /\ written = <<report>>


\* ---------------------------------------------------------------------- C8
\* The collection with, on every entity, the pairs of the records of that
\* type and id added.
Grown(collection, t, records) ==
    [i \in 1..Len(collection) |->
        [id |-> collection[i].id,
         codes |-> collection[i].codes \cup
                      {<<c.object_system, c.object_code>> :
                          c \in {r \in records : r.object_type = t
                                                   /\ r.object_id = collection[i].id}}]]

Effect(cols, records) ==
    [lines |-> Grown(cols.lines, "Line", records),
     routes |-> Grown(cols.routes, "Route", records),
     stop_points |-> Grown(cols.stop_points, "StopPoint", records),
     stop_areas |-> Grown(cols.stop_areas, "StopArea", records)]

\* C8: a call of apply_rules with the same files on the collections the call
\* before left changes no code set; and the code sets a call ends with are
\* those it began with and the pairs of the parsed records, so that they
\* depend on the files and the initial collections only.
C8_Idempotent ==
    /\ run >= 2 => collections = collections0
    /\ (run = 1 /\ ReadReturned /\ ai = Len(codes)) =>
          collections = Effect(collections0, parsed)

\* The second call has applied a record whose pair the first call had put in
\* its target's code set.
C8_Witness ==
    /\ run = 2
    /\ pc = "done"
    /\ ser # "none"
    /\ \E c \in Range(codes) :
          /\ c.object_type = "StopArea"
          /\ Resolves(collections, c)
          /\ <<c.object_system, c.object_code>> \in collections.stop_areas[1].codes

\* ---------------------------------------------------------------------- C9
SameEntities(c1, c2) ==
    /\ Len(c1) = Len(c2)
    /\ \A i \in 1..Len(c1) : c1[i].id = c2[i].id

\* C9: applying one record grows at most the code set of the entity with the
\* record's object_id in the collection the record's object_type selects, by
\* the pair (object_system, object_code); nothing else of the collections
\* changes, no step but that one changes them, and every code set contains
\* what it held when the call began.
C9_Frame ==
    /\ [](\A t \in ObjectType :
            /\ SameEntities(Selected(collections, t), Selected(collections0, t))
            /\ \A i \in 1..Len(Selected(collections, t)) :
                  Selected(collections0, t)[i].codes \subseteq Selected(collections, t)[i].codes)
    /\ [][/\ collections' # collections => (pc = "apply" /\ ai' = ai + 1)
          /\ (pc = "apply" /\ ai' = ai + 1) =>
                \A t \in ObjectType :
                   /\ SameEntities(Selected(collections', t), Selected(collections, t))
                   /\ \A i \in 1..Len(Selected(collections, t)) :
                         Selected(collections', t)[i].codes =
                            IF /\ t = codes[ai + 1].object_type
                               /\ Selected(collections, t)[i].id = codes[ai + 1].object_id
                            THEN Selected(collections, t)[i].codes
                                    \cup {<<codes[ai + 1].object_system, codes[ai + 1].object_code>>}
                            ELSE Selected(collections, t)[i].codes]_vars

\* After a run the stop area holds the pair it had and the one a record added,
\* while the stop point of the same id holds none.
C9_Witness ==
    /\ pc = "done"
    /\ collections.stop_areas[1].codes = {<<NAV, C42>>, <<NAV, C43>>}
    /\ collections.stop_points[2].codes = {}
    /\ collections # collections0

\* --------------------------------------------------------------------- C10
\* The records applied so far whose target does not exist, in the order applied.
Unresolved == SelectSeq(SubSeq(codes, 1, ai), LAMBDA c : ~Resolves(collections, c))

\* C10: in the report the read warnings come first, in the order of the files
\* and, within a file, of the rows; the not-found warnings follow, one for
\* each unresolved record in ascending record order, however many rows or
\* files the record occurred in.
C10_ReportOrder ==
    /\ \A i \in ReadWarnings : \A j \in NotFoundWarnings : i < j
    /\ \A i, j \in ReadWarnings :
          i < j => \/ report[i].message.file < report[j].message.file
                   \/ /\ report[i].message.file = report[j].message.file
                      /\ report[i].message.record < report[j].message.record
    /\ Len(report) = Cardinality(ReadWarnings) + Cardinality(NotFoundWarnings)
    /\ ReadReturned =>
          /\ Cardinality(NotFoundWarnings) = Len(Unresolved)
          /\ \A n \in 1..Len(Unresolved) :
                report[Cardinality(ReadWarnings) + n].message =
                   [object |-> TagOf(Unresolved[n].object_type),
                    object_id |-> Unresolved[n].object_id]
          /\ \A m, n \in 1..Len(Unresolved) : m < n => Before(Unresolved[m], Unresolved[n])
          /\ ai = Len(codes) =>
                Cardinality(NotFoundWarnings)
                   = Cardinality({c \in parsed : ~Resolves(collections, c)})

\* A successful run over two files with a rejected row and an unresolved
\* record that occurred twice: one read warning, then one not-found warning.
C10_Witness ==
    /\ pc = "done"
    /\ result = "ok"
    /\ fi = 2
    /\ nrows = 3
    /\ rejected = 1
    /\ Len(codes) = 1
    /\ Len(report) = 2
    /\ report[1].category = "ComplementaryCodeRulesRead"
    /\ report[2].category = "ComplementaryObjectNotFound"

====
